---- MODULE Spec2Model ----
(***************************************************************************)
(* Model of src/index.js: the conversion of a JavaScript syntax tree into  *)
(* a position-ordered stream of structural tokens.                         *)
(*                                                                         *)
(* The parsers (acorn, acorn-loose) and the tree walker (ast-types) are    *)
(* libraries: the model takes a syntax tree with position metadata as the  *)
(* parser's result and walks it the way ast-types' PathVisitor does        *)
(* (visitWithoutReset / visitChildren / context.traverse / context.visit). *)
(***************************************************************************)
EXTENDS Integers, Sequences, FiniteSets, TLC

(***************************************************************************)
(* Vocabulary (index.js 18-71)                                             *)
(***************************************************************************)
\* The entries of the TOKENS object literal, in source order.
TOKENS_ENTRIES ==
    <<
       <<"FOR_BEGIN", 2>>, <<"FOR_END", 3>>, <<"FUNCTION_BEGIN", 4>>,
       <<"FUNCTION_END", 5>>, <<"BREAK", 6>>, <<"APPLY", 7>>,
       <<"IF_BEGIN", 8>>, <<"IF_END", 9>>, <<"ELSE", 10>>,
       <<"CONTINUE", 11>>, <<"CLASS_BEGIN", 12>>, <<"CLASS_END", 13>>,
       <<"IN_CLASS_BEGIN", 14>>, <<"IN_CLASS_END", 15>>, <<"WITH_BEGIN", 16>>,
       <<"WITH_END", 17>>, <<"SWITCH_BEGIN", 18>>, <<"SWITCH_END", 19>>,
       <<"CASE", 20>>, <<"RETURN", 21>>, <<"THROW", 22>>,
       <<"TRY", 23>>, <<"CATCH_BEGIN", 24>>, <<"CATCH_END", 25>>,
       <<"WHILE_BEGIN", 26>>, <<"WHILE_END", 27>>, <<"DO_WHILE_BEGIN", 28>>,
       <<"DO_WHILE_END", 29>>, <<"ASSIGN", 30>>, <<"ARRAY_BEGIN", 31>>,
       <<"ARRAY_END", 32>>, <<"OBJECT_BEGIN", 33>>, <<"OBJECT_END", 34>>,
       <<"TERNARY", 35>>, <<"YIELD", 36>>, <<"GEN_EXPR_BEGIN", 37>>,
       <<"GEN_EXPR_END", 38>>, <<"ARRAY_COMP_BEGIN", 39>>, <<"ARRAY_COMP_END", 40>>,
       <<"IMPORT", 41>>, <<"AWAIT", 42>>, <<"DECORATOR", 43>>,
       <<"EXPORT", 44>>
    >>

TOKENS ==
    [ k \in { TOKENS_ENTRIES[i][1] : i \in DOMAIN TOKENS_ENTRIES } |->
        LET i == CHOOSE j \in DOMAIN TOKENS_ENTRIES : TOKENS_ENTRIES[j][1] = k
        IN TOKENS_ENTRIES[i][2] ]

\* Object.entries(TOKENS).reduce(...): accum[value] = key for every entry.
\* No two keys share a value, so the entry that wins for a value is unique.
TOKENS_REVERSE ==
    [ v \in { TOKENS[k] : k \in DOMAIN TOKENS } |->
        CHOOSE k \in DOMAIN TOKENS : TOKENS[k] = v ]

\* assert(Object.keys(TOKENS).length === Object.keys(TOKENS_REVERSE).length)
VocabularyAssert ==
    Cardinality(DOMAIN TOKENS) = Cardinality(DOMAIN TOKENS_REVERSE)

T == TOKENS

\* tokKey.endsWith('END'): the keys of TOKENS whose name ends in "END".
endsWithEND(key) ==
    key \in { "FOR_END", "FUNCTION_END", "IF_END", "CLASS_END", "IN_CLASS_END",
              "WITH_END", "SWITCH_END", "CATCH_END", "WHILE_END",
              "DO_WHILE_END", "ARRAY_END", "OBJECT_END", "GEN_EXPR_END",
              "ARRAY_COMP_END" }

(***************************************************************************)
(* Syntax trees.  A node is what the parser returns under the options      *)
(* `locations: true, ranges: true` (index.js 354-355):                     *)
(*   type      the ESTree node type                                        *)
(*   range     <<start offset, end offset>>                                *)
(*   loc       [start |-> [line, column], end |-> [line, column]]          *)
(*   value     what the node's own `value` property is to `||`:            *)
(*             "none" (no such property), "falsy" (0, "", null, false) or  *)
(*             "truthy" (a Literal such as "b" or 1)                       *)
(*   operator  the length of the node's operator string (0: no operator)   *)
(*   nulls     the names of the node's child fields that are null          *)
(*   kids      the non-null children, in the order the walker visits them  *)
(***************************************************************************)

\* The text is a grid of lines of `w` characters, each followed by a newline;
\* an offset's line and column as the parser reports them.
Loc(w, off) == [ line |-> (off \div (w + 1)) + 1, column |-> off % (w + 1) ]

Node(w, type, s, e, value, operator, nulls, kids) ==
    [ type |-> type, range |-> <<s, e>>,
      loc |-> [ start |-> Loc(w, s), end |-> Loc(w, e) ],
      value |-> value, operator |-> operator, nulls |-> nulls, kids |-> kids ]

\* The child fields a rule of index.js reads by name, in walker order; a
\* list-valued last field (arguments, ...) takes the remaining kids.
Fields(type) ==
    CASE type = "IfStatement" -> <<"test", "consequent", "alternate">>
      [] type \in {"ForOfStatement", "ForInStatement"} -> <<"left", "right", "body">>
      [] type = "ForStatement" -> <<"init", "test", "update", "body">>
      [] type = "CallExpression" -> <<"callee", "arguments">>
      [] type = "MemberExpression" -> <<"object", "property">>
      [] type = "VariableDeclarator" -> <<"id", "init">>
      [] type = "AssignmentExpression" -> <<"left", "right">>
      [] type = "ConditionalExpression" -> <<"test", "consequent", "alternate">>
      [] type = "SwitchCase" -> <<"test", "consequent">>
      [] OTHER -> <<>>

FieldPos(type, name) == CHOOSE i \in 1..Len(Fields(type)) : Fields(type)[i] = name

\* The index in node.kids of the child in field `name` (which is not null).
KidIndex(node, name) ==
    Cardinality({ i \in 1..FieldPos(node.type, name) :
                     Fields(node.type)[i] \notin node.nulls })

isNull(node, name) == name \in node.nulls

\* node[name] for a non-null child field.
Field(node, name) == node.kids[KidIndex(node, name)]

\* A NodePath: the node and where it is in the tree (the kid indices from the root).
Path(node, at) == [ value |-> node, at |-> at ]

\* path.get(name)
get(path, name) ==
    Path(Field(path.value, name), Append(path.at, KidIndex(path.value, name)))

(***************************************************************************)
(* ASTToTokens (index.js 73-340).  The conversion's state while it runs:   *)
(*   res     the tokens pushed so far (the array `res` of ASTToTokens)     *)
(*   visits  the paths of the nodes the walker has dispatched on, in order *)
(*   error   "none", or the exception that is propagating                  *)
(* Once an exception propagates, nothing more is pushed or visited.        *)
(***************************************************************************)
NewRun == [ res |-> <<>>, visits |-> <<>>, error |-> "none" ]

throw(st, e) == [ st EXCEPT !.error = e ]

getLength(node) == node.range[2] - node.range[1]

isPath(x) == "at" \in DOMAIN x

\* `node.value || node` yields a primitive (which has no `loc`) when the
\* argument is a node whose own `value` property is truthy.
valueOrNode(x) == IF isPath(x) THEN x.value ELSE x

hasLoc(x) == isPath(x) \/ x.value # "truthy"

Token(tok, line, column, length) ==
    [ token |-> [ key |-> TOKENS_REVERSE[tok], value |-> tok ],
      line |-> line, column |-> column, length |-> length ]

\* The same rule without its length assertion.
emitNoAssert(st, tok, node, length) ==
    IF st.error # "none" THEN st
    ELSE IF ~hasLoc(node) THEN throw(st, "TypeError")
    ELSE [ st EXCEPT !.res =
             Append(@, Token(tok, valueOrNode(node).loc.start.line,
                             valueOrNode(node).loc.start.column, length)) ]

emit(st, tok, node, length) ==
    IF st.error # "none" THEN st
    ELSE IF ~(length > 0) THEN throw(st, "AssertionError")
    ELSE IF ~hasLoc(node) THEN throw(st, "TypeError")
    ELSE [ st EXCEPT !.res =
             Append(@, Token(tok, valueOrNode(node).loc.start.line,
                             valueOrNode(node).loc.start.column, length)) ]

Max(a, b) == IF a >= b THEN a ELSE b

emitEnd(st, tok, node) ==
    IF st.error # "none" THEN st
    ELSE IF ~endsWithEND(TOKENS_REVERSE[tok]) THEN throw(st, "AssertionError")
    ELSE IF ~hasLoc(node) THEN throw(st, "TypeError")
    ELSE [ st EXCEPT !.res =
             Append(@, Token(tok, valueOrNode(node).loc.end.line,
                             Max(valueOrNode(node).loc.end.column - 1, 0), 1)) ]

\* What a rule hands back to its wrapper: the state, whether it called the
\* traverse or the visit callback, and whether it returned a truthy value.
Ret(st, traversed, res) == [ st |-> st, traversed |-> traversed, res |-> res ]

RECURSIVE visitWithoutReset(_, _)
RECURSIVE visitKids(_, _, _)

\* ast-types visitChildren: every non-null child, in field order.
visitChildren(st, path) == visitKids(st, path, 1)

visitKids(st, path, i) ==
    IF i > Len(path.value.kids) \/ st.error # "none" THEN st
    ELSE visitKids(visitWithoutReset(st, Path(path.value.kids[i], Append(path.at, i))),
                   path, i + 1)

\* context.traverse(path) and context.visit(path)
traverse(st, path) == visitChildren(st, path)

visit(st, path) == visitWithoutReset(st, path)

\* The wrapper without its `traversed` flag: default recursion whenever the
\* rule returned nothing.
makeTraverserNoFlag(r, path) ==
    IF ~r.res THEN traverse(r.st, path) ELSE r.st

\* The function makeTraverser installs for each visitX(path): `r` is what the
\* rule did; default recursion follows unless the rule recursed or returned
\* a truthy value.
makeTraverser(r, path) ==
    IF ~r.traversed /\ ~r.res THEN traverse(r.st, path) ELSE r.st

\* The rules shaped  emit(BEGIN, path, n); traverse(path); emitEnd(END, path).
block(st, path, begin, length, end) ==
    Ret(emitEnd(traverse(emit(st, T[begin], path, length), path), T[end], path),
        TRUE, FALSE)

\* A for rule that walks the body alone.
visitForStatementBodyOnly(st, path) ==
    Ret(emitEnd(visit(emit(st, T["FOR_BEGIN"], path, 3), get(path, "body")),
                T["FOR_END"], path),
        TRUE, FALSE)

visitForStatement(st, path) == block(st, path, "FOR_BEGIN", 3, "FOR_END")

visitFunction(st, path) == block(st, path, "FUNCTION_BEGIN", 8, "FUNCTION_END")

\* A break rule that measures the keyword.
visitBreakStatementKeyword(st, path) ==
    Ret(emit(st, T["BREAK"], path.value, 5), FALSE, FALSE)

visitBreakStatement(st, path) ==
    Ret(emit(st, T["BREAK"], path.value, getLength(path.value)), FALSE, FALSE)

visitContinueStatement(st, path) ==
    Ret(emit(st, T["CONTINUE"], path.value, getLength(path.value)), FALSE, FALSE)

visitCallExpression(st, path) ==
    LET node == path.value
        callee == Field(node, "callee")
    IN IF callee.type = "MemberExpression"
       THEN Ret(emit(st, T["APPLY"], Field(callee, "property"),
                     getLength(Field(callee, "property"))), FALSE, FALSE)
       ELSE Ret(emit(st, T["APPLY"], node, getLength(callee)), FALSE, FALSE)

\* An if rule that emits ELSE behind the alternate's tokens.
visitIfStatementElseLast(st, path) ==
    LET node == path.value
        a == emit(st, T["IF_BEGIN"], node, 2)
        b == visit(a, get(path, "test"))
        c == visit(b, get(path, "consequent"))
        d == IF ~isNull(node, "alternate")
             THEN emit(visit(c, get(path, "alternate")), T["ELSE"],
                       Field(node, "alternate"), 1)
             ELSE c
    IN Ret(emitEnd(d, T["IF_END"], node), TRUE, FALSE)

visitIfStatement(st, path) ==
    LET node == path.value
        a == emit(st, T["IF_BEGIN"], node, 2)
        b == visit(a, get(path, "test"))
        c == visit(b, get(path, "consequent"))
        d == IF ~isNull(node, "alternate")
             THEN visit(emit(c, T["ELSE"], Field(node, "alternate"), 1),
                        get(path, "alternate"))
             ELSE c
    IN Ret(emitEnd(d, T["IF_END"], node), TRUE, FALSE)

visitClassDeclaration(st, path) == block(st, path, "CLASS_BEGIN", 5, "CLASS_END")

visitClassExpression(st, path) == block(st, path, "IN_CLASS_BEGIN", 5, "IN_CLASS_END")

visitWithStatement(st, path) == block(st, path, "WITH_BEGIN", 4, "WITH_END")

visitSwitchStatement(st, path) == block(st, path, "SWITCH_BEGIN", 6, "SWITCH_END")

visitSwitchCase(st, path) ==
    Ret(emit(st, T["CASE"], path.value,
             IF isNull(path.value, "test") THEN 7 ELSE 4), FALSE, FALSE)

visitReturnStatement(st, path) ==
    Ret(emit(st, T["RETURN"], path.value, 6), FALSE, FALSE)

visitThrowStatement(st, path) ==
    Ret(emit(st, T["THROW"], path.value, 5), FALSE, FALSE)

visitTryStatement(st, path) ==
    Ret(emit(st, T["TRY"], path.value, 3), FALSE, FALSE)

visitCatchClause(st, path) == block(st, path, "CATCH_BEGIN", 5, "CATCH_END")

visitWhileStatement(st, path) == block(st, path, "WHILE_BEGIN", 5, "WHILE_END")

visitDoWhileStatement(st, path) == block(st, path, "DO_WHILE_BEGIN", 2, "DO_WHILE_END")

visitForOfStatement(st, path) ==
    LET a == emit(st, T["FOR_BEGIN"], path, 3)
        b == visit(a, get(path, "left"))
        c == emit(b, T["ASSIGN"], Field(path.value, "left"), 1)
        d == visit(c, get(path, "right"))
        e == visit(d, get(path, "body"))
    IN Ret(emitEnd(e, T["FOR_END"], path), TRUE, FALSE)

\* this.visitForOfStatement(path) is the wrapped rule; then `return true`.
visitForInStatement(st, path) ==
    Ret(makeTraverser(visitForOfStatement(st, path), path), FALSE, TRUE)

visitVariableDeclarator(st, path) ==
    IF ~isNull(path.value, "init")
    THEN Ret(emit(st, T["ASSIGN"], path.value, getLength(Field(path.value, "id"))),
             FALSE, FALSE)
    ELSE Ret(st, FALSE, FALSE)

visitArrayExpression(st, path) == block(st, path, "ARRAY_BEGIN", 1, "ARRAY_END")

visitObjectExpression(st, path) == block(st, path, "OBJECT_BEGIN", 1, "OBJECT_END")

visitAssignmentExpression(st, path) ==
    LET a == visit(st, get(path, "left"))
        b == emit(a, T["ASSIGN"], path, path.value.operator)
    IN Ret(visit(b, get(path, "right")), TRUE, FALSE)

visitUpdateExpression(st, path) ==
    Ret(emit(traverse(st, path), T["ASSIGN"], path, path.value.operator), TRUE, FALSE)

visitConditionalExpression(st, path) ==
    Ret(emit(st, T["TERNARY"], path.value,
             getLength(Field(path.value, "test")) + 2), FALSE, FALSE)

visitYieldExpression(st, path) ==
    Ret(emit(st, T["YIELD"], path.value, 5), FALSE, FALSE)

visitGeneratorExpression(st, path) ==
    block(st, path, "GEN_EXPR_BEGIN", 1, "GEN_EXPR_END")

visitComprehensionExpression(st, path) ==
    block(st, path, "ARRAY_COMP_BEGIN", 1, "ARRAY_COMP_END")

visitImportDeclaration(st, path) == Ret(emit(st, T["IMPORT"], path, 6), FALSE, FALSE)

visitImportExpression(st, path) == Ret(emit(st, T["IMPORT"], path, 6), FALSE, FALSE)

visitAwaitExpression(st, path) == Ret(emit(st, T["AWAIT"], path, 5), FALSE, FALSE)

visitDecorator(st, path) == Ret(emit(st, T["DECORATOR"], path, 1), FALSE, FALSE)

visitExportNamedDeclaration(st, path) == Ret(emit(st, T["EXPORT"], path, 6), FALSE, FALSE)

visitExportDefaultDeclaration(st, path) == Ret(emit(st, T["EXPORT"], path, 6), FALSE, FALSE)

visitExportAllDeclaration(st, path) == Ret(emit(st, T["EXPORT"], path, 6), FALSE, FALSE)

\* The node types whose visitor method is visitFunction (its subtypes).
FunctionTypes ==
    { "FunctionDeclaration", "FunctionExpression", "ArrowFunctionExpression" }

\* The rule registered for the node's type, if any.
hasRule(type) ==
    type \in FunctionTypes \cup
      { "ForStatement", "BreakStatement", "ContinueStatement", "CallExpression",
        "IfStatement", "ClassDeclaration", "ClassExpression", "WithStatement",
        "SwitchStatement", "SwitchCase", "ReturnStatement", "ThrowStatement",
        "TryStatement", "CatchClause", "WhileStatement", "DoWhileStatement",
        "ForOfStatement", "ForInStatement", "VariableDeclarator",
        "ArrayExpression", "ObjectExpression", "AssignmentExpression",
        "UpdateExpression", "ConditionalExpression", "YieldExpression",
        "GeneratorExpression", "ComprehensionExpression", "ImportDeclaration",
        "ImportExpression", "AwaitExpression", "Decorator",
        "ExportNamedDeclaration", "ExportDefaultDeclaration",
        "ExportAllDeclaration" }

rule(st, path) ==
    LET t == path.value.type
    IN CASE t = "ForStatement" -> visitForStatement(st, path)
         [] t \in FunctionTypes -> visitFunction(st, path)
         [] t = "BreakStatement" -> visitBreakStatement(st, path)
         [] t = "ContinueStatement" -> visitContinueStatement(st, path)
         [] t = "CallExpression" -> visitCallExpression(st, path)
         [] t = "IfStatement" -> visitIfStatement(st, path)
         [] t = "ClassDeclaration" -> visitClassDeclaration(st, path)
         [] t = "ClassExpression" -> visitClassExpression(st, path)
         [] t = "WithStatement" -> visitWithStatement(st, path)
         [] t = "SwitchStatement" -> visitSwitchStatement(st, path)
         [] t = "SwitchCase" -> visitSwitchCase(st, path)
         [] t = "ReturnStatement" -> visitReturnStatement(st, path)
         [] t = "ThrowStatement" -> visitThrowStatement(st, path)
         [] t = "TryStatement" -> visitTryStatement(st, path)
         [] t = "CatchClause" -> visitCatchClause(st, path)
         [] t = "WhileStatement" -> visitWhileStatement(st, path)
         [] t = "DoWhileStatement" -> visitDoWhileStatement(st, path)
         [] t = "ForOfStatement" -> visitForOfStatement(st, path)
         [] t = "ForInStatement" -> visitForInStatement(st, path)
         [] t = "VariableDeclarator" -> visitVariableDeclarator(st, path)
         [] t = "ArrayExpression" -> visitArrayExpression(st, path)
         [] t = "ObjectExpression" -> visitObjectExpression(st, path)
         [] t = "AssignmentExpression" -> visitAssignmentExpression(st, path)
         [] t = "UpdateExpression" -> visitUpdateExpression(st, path)
         [] t = "ConditionalExpression" -> visitConditionalExpression(st, path)
         [] t = "YieldExpression" -> visitYieldExpression(st, path)
         [] t = "GeneratorExpression" -> visitGeneratorExpression(st, path)
         [] t = "ComprehensionExpression" -> visitComprehensionExpression(st, path)
         [] t = "ImportDeclaration" -> visitImportDeclaration(st, path)
         [] t = "ImportExpression" -> visitImportExpression(st, path)
         [] t = "AwaitExpression" -> visitAwaitExpression(st, path)
         [] t = "Decorator" -> visitDecorator(st, path)
         [] t = "ExportNamedDeclaration" -> visitExportNamedDeclaration(st, path)
         [] t = "ExportDefaultDeclaration" -> visitExportDefaultDeclaration(st, path)
         [] t = "ExportAllDeclaration" -> visitExportAllDeclaration(st, path)

\* ast-types PathVisitor.visitWithoutReset: the wrapped rule for the node's
\* type, or the children when no rule is registered.
visitWithoutReset(st, path) ==
    IF st.error # "none" THEN st
    ELSE LET seen == [ st EXCEPT !.visits = Append(@, path.at) ]
         IN IF hasRule(path.value.type)
            THEN makeTraverser(rule(seen, path), path)
            ELSE visitChildren(seen, path)

\* visit(ast, makeTraverser({...})); return res
ASTToTokens(ast) == visitWithoutReset(NewRun, Path(ast, <<>>))

(***************************************************************************)
(* doParse's sort (index.js 372-378).  Array.prototype.sort is stable      *)
(* (ECMAScript 2019): elements the comparator does not order keep their    *)
(* relative order.                                                         *)
(***************************************************************************)
\* A comparator that looks at the column only.
compareColumnOnly(a, b) == a.column - b.column

compare(a, b) ==
    LET diff == a.line - b.line
    IN IF diff = 0 THEN a.column - b.column ELSE diff

\* `x` put behind the longest prefix of the sorted `s` that does not follow it.
insertSorted(s, x) ==
    LET k == Cardinality({ j \in 1..Len(s) :
                              \A i \in 1..j : compare(s[i], x) <= 0 })
    IN SubSeq(s, 1, k) \o <<x>> \o SubSeq(s, k + 1, Len(s))

RECURSIVE sortFrom(_, _)
sortFrom(done, rest) ==
    IF rest = <<>> THEN done
    ELSE sortFrom(insertSorted(done, Head(rest)), Tail(rest))

\* A sort that puts the elements the comparator does not order in reverse.
sortUnstable(tokens) ==
    LET r == [ i \in 1..Len(tokens) |-> tokens[Len(tokens) + 1 - i] ]
    IN sortFrom(<<>>, r)

sort(tokens) == sortFrom(<<>>, tokens)

(***************************************************************************)
(* Inputs.  A file is a text with what the two parsers make of it.         *)
(***************************************************************************)
\* The line width of the single-line programs below.
LongLine == 100

\* The programs, each with the tree the parser that accepts it returns.
\* strict: the strict parser accepts the text; loose: the lenient one does.
\* for (let i = 0; i < 3; i++) {}
P_scenarioA ==
    [ name |-> "scenarioA", exists |-> TRUE, strict |-> TRUE, loose |-> TRUE, tree |->
        Node(LongLine, "Program", 0, 30, "none", 0, {}, <<
          Node(LongLine, "ForStatement", 0, 30, "none", 0, {}, <<
            Node(LongLine, "VariableDeclaration", 5, 14, "none", 0, {}, <<
              Node(LongLine, "VariableDeclarator", 9, 14, "none", 0, {}, <<
                Node(LongLine, "Identifier", 9, 10, "none", 0, {}, <<>>),
                Node(LongLine, "Literal", 13, 14, "falsy", 0, {}, <<>>) >>) >>),
            Node(LongLine, "BinaryExpression", 16, 21, "none", 0, {}, <<
              Node(LongLine, "Identifier", 16, 17, "none", 0, {}, <<>>),
              Node(LongLine, "Literal", 20, 21, "truthy", 0, {}, <<>>) >>),
            Node(LongLine, "UpdateExpression", 23, 26, "none", 2, {}, <<
              Node(LongLine, "Identifier", 23, 24, "none", 0, {}, <<>>) >>),
            Node(LongLine, "BlockStatement", 28, 30, "none", 0, {}, <<>>) >>) >>) ]

\* a.b()
P_scenarioB ==
    [ name |-> "scenarioB", exists |-> TRUE, strict |-> TRUE, loose |-> TRUE, tree |->
        Node(LongLine, "Program", 0, 5, "none", 0, {}, <<
          Node(LongLine, "ExpressionStatement", 0, 5, "none", 0, {}, <<
            Node(LongLine, "CallExpression", 0, 5, "none", 0, {}, <<
              Node(LongLine, "MemberExpression", 0, 3, "none", 0, {}, <<
                Node(LongLine, "Identifier", 0, 1, "none", 0, {}, <<>>),
                Node(LongLine, "Identifier", 2, 3, "none", 0, {}, <<>>) >>) >>) >>) >>) ]

\* if (x) {} else {}
P_scenarioC ==
    [ name |-> "scenarioC", exists |-> TRUE, strict |-> TRUE, loose |-> TRUE, tree |->
        Node(LongLine, "Program", 0, 17, "none", 0, {}, <<
          Node(LongLine, "IfStatement", 0, 17, "none", 0, {}, <<
            Node(LongLine, "Identifier", 4, 5, "none", 0, {}, <<>>),
            Node(LongLine, "BlockStatement", 7, 9, "none", 0, {}, <<>>),
            Node(LongLine, "BlockStatement", 15, 17, "none", 0, {}, <<>>) >>) >>) ]

\* let x = 1
P_scenarioD ==
    [ name |-> "scenarioD", exists |-> TRUE, strict |-> TRUE, loose |-> TRUE, tree |->
        Node(LongLine, "Program", 0, 9, "none", 0, {}, <<
          Node(LongLine, "VariableDeclaration", 0, 9, "none", 0, {}, <<
            Node(LongLine, "VariableDeclarator", 4, 9, "none", 0, {}, <<
              Node(LongLine, "Identifier", 4, 5, "none", 0, {}, <<>>),
              Node(LongLine, "Literal", 8, 9, "truthy", 0, {}, <<>>) >>) >>) >>) ]

\* if (x) {
P_scenarioE ==
    [ name |-> "scenarioE", exists |-> TRUE, strict |-> FALSE, loose |-> TRUE, tree |->
        Node(LongLine, "Program", 0, 8, "none", 0, {}, <<
          Node(LongLine, "IfStatement", 0, 8, "none", 0, {"alternate"}, <<
            Node(LongLine, "Identifier", 4, 5, "none", 0, {}, <<>>),
            Node(LongLine, "BlockStatement", 7, 8, "none", 0, {}, <<>>) >>) >>) ]

\* (function(){})()
P_parenCallee ==
    [ name |-> "parenCallee", exists |-> TRUE, strict |-> TRUE, loose |-> TRUE, tree |->
        Node(LongLine, "Program", 0, 16, "none", 0, {}, <<
          Node(LongLine, "ExpressionStatement", 0, 16, "none", 0, {}, <<
            Node(LongLine, "CallExpression", 0, 16, "none", 0, {}, <<
              Node(LongLine, "FunctionExpression", 1, 13, "none", 0, {}, <<
                Node(LongLine, "BlockStatement", 11, 13, "none", 0, {}, <<>>) >>) >>) >>) >>) ]

\* (f)(x);
P_parenIdent ==
    [ name |-> "parenIdent", exists |-> TRUE, strict |-> TRUE, loose |-> TRUE, tree |->
        Node(LongLine, "Program", 0, 7, "none", 0, {}, <<
          Node(LongLine, "ExpressionStatement", 0, 7, "none", 0, {}, <<
            Node(LongLine, "CallExpression", 0, 6, "none", 0, {}, <<
              Node(LongLine, "Identifier", 1, 2, "none", 0, {}, <<>>),
              Node(LongLine, "Identifier", 4, 5, "none", 0, {}, <<>>) >>) >>) >>) ]

\* f(g(x), y)
P_plainCall ==
    [ name |-> "plainCall", exists |-> TRUE, strict |-> TRUE, loose |-> TRUE, tree |->
        Node(LongLine, "Program", 0, 10, "none", 0, {}, <<
          Node(LongLine, "ExpressionStatement", 0, 10, "none", 0, {}, <<
            Node(LongLine, "CallExpression", 0, 10, "none", 0, {}, <<
              Node(LongLine, "Identifier", 0, 1, "none", 0, {}, <<>>),
              Node(LongLine, "CallExpression", 2, 6, "none", 0, {}, <<
                Node(LongLine, "Identifier", 2, 3, "none", 0, {}, <<>>),
                Node(LongLine, "Identifier", 4, 5, "none", 0, {}, <<>>) >>),
              Node(LongLine, "Identifier", 8, 9, "none", 0, {}, <<>>) >>) >>) >>) ]

\* for (k in o) {}
P_forIn ==
    [ name |-> "forIn", exists |-> TRUE, strict |-> TRUE, loose |-> TRUE, tree |->
        Node(LongLine, "Program", 0, 15, "none", 0, {}, <<
          Node(LongLine, "ForInStatement", 0, 15, "none", 0, {}, <<
            Node(LongLine, "Identifier", 5, 6, "none", 0, {}, <<>>),
            Node(LongLine, "Identifier", 10, 11, "none", 0, {}, <<>>),
            Node(LongLine, "BlockStatement", 13, 15, "none", 0, {}, <<>>) >>) >>) ]

\* for (var k in [o]) f(k)
P_forInVar ==
    [ name |-> "forInVar", exists |-> TRUE, strict |-> TRUE, loose |-> TRUE, tree |->
        Node(LongLine, "Program", 0, 23, "none", 0, {}, <<
          Node(LongLine, "ForInStatement", 0, 23, "none", 0, {}, <<
            Node(LongLine, "VariableDeclaration", 5, 10, "none", 0, {}, <<
              Node(LongLine, "VariableDeclarator", 9, 10, "none", 0, {"init"}, <<
                Node(LongLine, "Identifier", 9, 10, "none", 0, {}, <<>>) >>) >>),
            Node(LongLine, "ArrayExpression", 14, 17, "none", 0, {}, <<
              Node(LongLine, "Identifier", 15, 16, "none", 0, {}, <<>>) >>),
            Node(LongLine, "ExpressionStatement", 19, 23, "none", 0, {}, <<
              Node(LongLine, "CallExpression", 19, 23, "none", 0, {}, <<
                Node(LongLine, "Identifier", 19, 20, "none", 0, {}, <<>>),
                Node(LongLine, "Identifier", 21, 22, "none", 0, {}, <<>>) >>) >>) >>) >>) ]

\* for (const v of [1]) { if (v) f(v); else if (w) break; else continue; }
P_forOf ==
    [ name |-> "forOf", exists |-> TRUE, strict |-> TRUE, loose |-> TRUE, tree |->
        Node(LongLine, "Program", 0, 71, "none", 0, {}, <<
          Node(LongLine, "ForOfStatement", 0, 71, "none", 0, {}, <<
            Node(LongLine, "VariableDeclaration", 5, 12, "none", 0, {}, <<
              Node(LongLine, "VariableDeclarator", 11, 12, "none", 0, {"init"}, <<
                Node(LongLine, "Identifier", 11, 12, "none", 0, {}, <<>>) >>) >>),
            Node(LongLine, "ArrayExpression", 16, 19, "none", 0, {}, <<
              Node(LongLine, "Literal", 17, 18, "truthy", 0, {}, <<>>) >>),
            Node(LongLine, "BlockStatement", 21, 71, "none", 0, {}, <<
              Node(LongLine, "IfStatement", 23, 69, "none", 0, {}, <<
                Node(LongLine, "Identifier", 27, 28, "none", 0, {}, <<>>),
                Node(LongLine, "ExpressionStatement", 30, 35, "none", 0, {}, <<
                  Node(LongLine, "CallExpression", 30, 34, "none", 0, {}, <<
                    Node(LongLine, "Identifier", 30, 31, "none", 0, {}, <<>>),
                    Node(LongLine, "Identifier", 32, 33, "none", 0, {}, <<>>) >>) >>),
                Node(LongLine, "IfStatement", 41, 69, "none", 0, {}, <<
                  Node(LongLine, "Identifier", 45, 46, "none", 0, {}, <<>>),
                  Node(LongLine, "BreakStatement", 48, 54, "none", 0, {}, <<>>),
                  Node(LongLine, "ContinueStatement", 60, 69, "none", 0, {}, <<>>) >>) >>) >>) >>) >>) ]

\* for (;;) break
P_forEmpty ==
    [ name |-> "forEmpty", exists |-> TRUE, strict |-> TRUE, loose |-> TRUE, tree |->
        Node(LongLine, "Program", 0, 14, "none", 0, {}, <<
          Node(LongLine, "ForStatement", 0, 14, "none", 0, {"init", "test", "update"}, <<
            Node(LongLine, "BreakStatement", 9, 14, "none", 0, {}, <<>>) >>) >>) ]

\* for (i = 0, j = 9; i < j; i += 2, --j) ;
P_forAssign ==
    [ name |-> "forAssign", exists |-> TRUE, strict |-> TRUE, loose |-> TRUE, tree |->
        Node(LongLine, "Program", 0, 40, "none", 0, {}, <<
          Node(LongLine, "ForStatement", 0, 40, "none", 0, {}, <<
            Node(LongLine, "SequenceExpression", 5, 17, "none", 0, {}, <<
              Node(LongLine, "AssignmentExpression", 5, 10, "none", 1, {}, <<
                Node(LongLine, "Identifier", 5, 6, "none", 0, {}, <<>>),
                Node(LongLine, "Literal", 9, 10, "falsy", 0, {}, <<>>) >>),
              Node(LongLine, "AssignmentExpression", 12, 17, "none", 1, {}, <<
                Node(LongLine, "Identifier", 12, 13, "none", 0, {}, <<>>),
                Node(LongLine, "Literal", 16, 17, "truthy", 0, {}, <<>>) >>) >>),
            Node(LongLine, "BinaryExpression", 19, 24, "none", 0, {}, <<
              Node(LongLine, "Identifier", 19, 20, "none", 0, {}, <<>>),
              Node(LongLine, "Identifier", 23, 24, "none", 0, {}, <<>>) >>),
            Node(LongLine, "SequenceExpression", 26, 37, "none", 0, {}, <<
              Node(LongLine, "AssignmentExpression", 26, 32, "none", 2, {}, <<
                Node(LongLine, "Identifier", 26, 27, "none", 0, {}, <<>>),
                Node(LongLine, "Literal", 31, 32, "truthy", 0, {}, <<>>) >>),
              Node(LongLine, "UpdateExpression", 34, 37, "none", 2, {}, <<
                Node(LongLine, "Identifier", 36, 37, "none", 0, {}, <<>>) >>) >>),
            Node(LongLine, "EmptyStatement", 39, 40, "none", 0, {}, <<>>) >>) >>) ]

\* function f() { try { throw e; } catch (e) { return 1; } }
P_tryCatch ==
    [ name |-> "tryCatch", exists |-> TRUE, strict |-> TRUE, loose |-> TRUE, tree |->
        Node(LongLine, "Program", 0, 57, "none", 0, {}, <<
          Node(LongLine, "FunctionDeclaration", 0, 57, "none", 0, {}, <<
            Node(LongLine, "Identifier", 0, 1, "none", 0, {}, <<>>),
            Node(LongLine, "BlockStatement", 13, 57, "none", 0, {}, <<
              Node(LongLine, "TryStatement", 15, 55, "none", 0, {}, <<
                Node(LongLine, "BlockStatement", 19, 31, "none", 0, {}, <<
                  Node(LongLine, "ThrowStatement", 21, 29, "none", 0, {}, <<
                    Node(LongLine, "Identifier", 27, 28, "none", 0, {}, <<>>) >>) >>),
                Node(LongLine, "CatchClause", 32, 55, "none", 0, {}, <<
                  Node(LongLine, "Identifier", 39, 40, "none", 0, {}, <<>>),
                  Node(LongLine, "BlockStatement", 42, 55, "none", 0, {}, <<
                    Node(LongLine, "ReturnStatement", 44, 53, "none", 0, {}, <<
                      Node(LongLine, "Literal", 51, 52, "truthy", 0, {}, <<>>) >>) >>) >>) >>) >>) >>) >>) ]

\* return
P_bareReturn ==
    [ name |-> "bareReturn", exists |-> TRUE, strict |-> TRUE, loose |-> TRUE, tree |->
        Node(LongLine, "Program", 0, 6, "none", 0, {}, <<
          Node(LongLine, "ReturnStatement", 0, 6, "none", 0, {}, <<>>) >>) ]

\* try {} finally { throw f(x) }
P_tryFinally ==
    [ name |-> "tryFinally", exists |-> TRUE, strict |-> TRUE, loose |-> TRUE, tree |->
        Node(LongLine, "Program", 0, 29, "none", 0, {}, <<
          Node(LongLine, "TryStatement", 0, 29, "none", 0, {}, <<
            Node(LongLine, "BlockStatement", 4, 6, "none", 0, {}, <<>>),
            Node(LongLine, "BlockStatement", 15, 29, "none", 0, {}, <<
              Node(LongLine, "ThrowStatement", 17, 27, "none", 0, {}, <<
                Node(LongLine, "CallExpression", 23, 27, "none", 0, {}, <<
                  Node(LongLine, "Identifier", 23, 24, "none", 0, {}, <<>>),
                  Node(LongLine, "Identifier", 25, 26, "none", 0, {}, <<>>) >>) >>) >>) >>) >>) ]

\* x: while (1) break x;
P_labelBreak ==
    [ name |-> "labelBreak", exists |-> TRUE, strict |-> TRUE, loose |-> TRUE, tree |->
        Node(LongLine, "Program", 0, 21, "none", 0, {}, <<
          Node(LongLine, "LabeledStatement", 0, 21, "none", 0, {}, <<
            Node(LongLine, "Identifier", 0, 1, "none", 0, {}, <<>>),
            Node(LongLine, "WhileStatement", 3, 21, "none", 0, {}, <<
              Node(LongLine, "Literal", 10, 11, "truthy", 0, {}, <<>>),
              Node(LongLine, "BreakStatement", 13, 21, "none", 0, {}, <<
                Node(LongLine, "Identifier", 19, 20, "none", 0, {}, <<>>) >>) >>) >>) >>) ]

\* do { continue } while (0)
P_doContinue ==
    [ name |-> "doContinue", exists |-> TRUE, strict |-> TRUE, loose |-> TRUE, tree |->
        Node(LongLine, "Program", 0, 25, "none", 0, {}, <<
          Node(LongLine, "DoWhileStatement", 0, 25, "none", 0, {}, <<
            Node(LongLine, "BlockStatement", 3, 15, "none", 0, {}, <<
              Node(LongLine, "ContinueStatement", 5, 13, "none", 0, {}, <<>>) >>),
            Node(LongLine, "Literal", 23, 24, "falsy", 0, {}, <<>>) >>) >>) ]

\* l: for (;;) continue l
P_labelContinue ==
    [ name |-> "labelContinue", exists |-> TRUE, strict |-> TRUE, loose |-> TRUE, tree |->
        Node(LongLine, "Program", 0, 22, "none", 0, {}, <<
          Node(LongLine, "LabeledStatement", 0, 22, "none", 0, {}, <<
            Node(LongLine, "Identifier", 0, 1, "none", 0, {}, <<>>),
            Node(LongLine, "ForStatement", 3, 22, "none", 0, {"init", "test", "update"}, <<
              Node(LongLine, "ContinueStatement", 12, 22, "none", 0, {}, <<
                Node(LongLine, "Identifier", 21, 22, "none", 0, {}, <<>>) >>) >>) >>) >>) ]

\* switch (x) { case 1: break; default: }
P_switchCase ==
    [ name |-> "switchCase", exists |-> TRUE, strict |-> TRUE, loose |-> TRUE, tree |->
        Node(LongLine, "Program", 0, 38, "none", 0, {}, <<
          Node(LongLine, "SwitchStatement", 0, 38, "none", 0, {}, <<
            Node(LongLine, "Identifier", 8, 9, "none", 0, {}, <<>>),
            Node(LongLine, "SwitchCase", 13, 27, "none", 0, {}, <<
              Node(LongLine, "Literal", 18, 19, "truthy", 0, {}, <<>>),
              Node(LongLine, "BreakStatement", 21, 27, "none", 0, {}, <<>>) >>),
            Node(LongLine, "SwitchCase", 28, 36, "none", 0, {"test"}, <<>>) >>) >>) ]

\* a["b"]()
P_literalProperty ==
    [ name |-> "literalProperty", exists |-> TRUE, strict |-> TRUE, loose |-> TRUE, tree |->
        Node(LongLine, "Program", 0, 8, "none", 0, {}, <<
          Node(LongLine, "ExpressionStatement", 0, 8, "none", 0, {}, <<
            Node(LongLine, "CallExpression", 0, 8, "none", 0, {}, <<
              Node(LongLine, "MemberExpression", 0, 6, "none", 0, {}, <<
                Node(LongLine, "Identifier", 0, 1, "none", 0, {}, <<>>),
                Node(LongLine, "Literal", 2, 5, "truthy", 0, {}, <<>>) >>) >>) >>) >>) ]

\* a[0]()
P_zeroProperty ==
    [ name |-> "zeroProperty", exists |-> TRUE, strict |-> TRUE, loose |-> TRUE, tree |->
        Node(LongLine, "Program", 0, 6, "none", 0, {}, <<
          Node(LongLine, "ExpressionStatement", 0, 6, "none", 0, {}, <<
            Node(LongLine, "CallExpression", 0, 6, "none", 0, {}, <<
              Node(LongLine, "MemberExpression", 0, 4, "none", 0, {}, <<
                Node(LongLine, "Identifier", 0, 1, "none", 0, {}, <<>>),
                Node(LongLine, "Literal", 2, 3, "falsy", 0, {}, <<>>) >>) >>) >>) >>) ]

\* class A { m() {} }; x = class {}
P_classes ==
    [ name |-> "classes", exists |-> TRUE, strict |-> TRUE, loose |-> TRUE, tree |->
        Node(LongLine, "Program", 0, 32, "none", 0, {}, <<
          Node(LongLine, "ClassDeclaration", 0, 18, "none", 0, {}, <<
            Node(LongLine, "Identifier", 6, 7, "none", 0, {}, <<>>),
            Node(LongLine, "ClassBody", 8, 18, "none", 0, {}, <<
              Node(LongLine, "MethodDefinition", 10, 16, "none", 0, {}, <<
                Node(LongLine, "Identifier", 10, 11, "none", 0, {}, <<>>),
                Node(LongLine, "FunctionExpression", 11, 16, "none", 0, {}, <<
                  Node(LongLine, "BlockStatement", 14, 16, "none", 0, {}, <<>>) >>) >>) >>) >>),
          Node(LongLine, "EmptyStatement", 18, 19, "none", 0, {}, <<>>),
          Node(LongLine, "ExpressionStatement", 20, 32, "none", 0, {}, <<
            Node(LongLine, "AssignmentExpression", 20, 32, "none", 1, {}, <<
              Node(LongLine, "Identifier", 20, 21, "none", 0, {}, <<>>),
              Node(LongLine, "ClassExpression", 24, 32, "none", 0, {}, <<
                Node(LongLine, "ClassBody", 30, 32, "none", 0, {}, <<>>) >>) >>) >>) >>) ]

\* a += b ? [c] : {}
P_ternary ==
    [ name |-> "ternary", exists |-> TRUE, strict |-> TRUE, loose |-> TRUE, tree |->
        Node(LongLine, "Program", 0, 17, "none", 0, {}, <<
          Node(LongLine, "ExpressionStatement", 0, 17, "none", 0, {}, <<
            Node(LongLine, "AssignmentExpression", 0, 17, "none", 2, {}, <<
              Node(LongLine, "Identifier", 0, 1, "none", 0, {}, <<>>),
              Node(LongLine, "ConditionalExpression", 5, 17, "none", 0, {}, <<
                Node(LongLine, "Identifier", 5, 6, "none", 0, {}, <<>>),
                Node(LongLine, "ArrayExpression", 9, 12, "none", 0, {}, <<
                  Node(LongLine, "Identifier", 10, 11, "none", 0, {}, <<>>) >>),
                Node(LongLine, "ObjectExpression", 15, 17, "none", 0, {}, <<>>) >>) >>) >>) >>) ]

\* (a) ? b : c
P_parenTest ==
    [ name |-> "parenTest", exists |-> TRUE, strict |-> TRUE, loose |-> TRUE, tree |->
        Node(LongLine, "Program", 0, 11, "none", 0, {}, <<
          Node(LongLine, "ExpressionStatement", 0, 11, "none", 0, {}, <<
            Node(LongLine, "ConditionalExpression", 0, 11, "none", 0, {}, <<
              Node(LongLine, "Identifier", 1, 2, "none", 0, {}, <<>>),
              Node(LongLine, "Identifier", 6, 7, "none", 0, {}, <<>>),
              Node(LongLine, "Identifier", 10, 11, "none", 0, {}, <<>>) >>) >>) >>) ]

\* import x from "m"; export default x; export * from "n"; export const y = 1;
P_modules ==
    [ name |-> "modules", exists |-> TRUE, strict |-> TRUE, loose |-> TRUE, tree |->
        Node(LongLine, "Program", 0, 75, "none", 0, {}, <<
          Node(LongLine, "ImportDeclaration", 0, 18, "none", 0, {}, <<
            Node(LongLine, "ImportDefaultSpecifier", 7, 8, "none", 0, {}, <<
              Node(LongLine, "Identifier", 7, 8, "none", 0, {}, <<>>) >>),
            Node(LongLine, "Literal", 14, 17, "truthy", 0, {}, <<>>) >>),
          Node(LongLine, "ExportDefaultDeclaration", 19, 36, "none", 0, {}, <<
            Node(LongLine, "Identifier", 34, 35, "none", 0, {}, <<>>) >>),
          Node(LongLine, "ExportAllDeclaration", 37, 55, "none", 0, {}, <<
            Node(LongLine, "Literal", 51, 54, "truthy", 0, {}, <<>>) >>),
          Node(LongLine, "ExportNamedDeclaration", 56, 75, "none", 0, {}, <<
            Node(LongLine, "VariableDeclaration", 63, 75, "none", 0, {}, <<
              Node(LongLine, "VariableDeclarator", 69, 74, "none", 0, {}, <<
                Node(LongLine, "Identifier", 69, 70, "none", 0, {}, <<>>),
                Node(LongLine, "Literal", 73, 74, "truthy", 0, {}, <<>>) >>) >>) >>) >>) ]

\* async function* g() { yield await p; }
P_asyncGen ==
    [ name |-> "asyncGen", exists |-> TRUE, strict |-> TRUE, loose |-> TRUE, tree |->
        Node(LongLine, "Program", 0, 38, "none", 0, {}, <<
          Node(LongLine, "FunctionDeclaration", 0, 38, "none", 0, {}, <<
            Node(LongLine, "Identifier", 16, 17, "none", 0, {}, <<>>),
            Node(LongLine, "BlockStatement", 20, 38, "none", 0, {}, <<
              Node(LongLine, "ExpressionStatement", 22, 36, "none", 0, {}, <<
                Node(LongLine, "YieldExpression", 22, 35, "none", 0, {}, <<
                  Node(LongLine, "AwaitExpression", 28, 35, "none", 0, {}, <<
                    Node(LongLine, "Identifier", 34, 35, "none", 0, {}, <<>>) >>) >>) >>) >>) >>) >>) ]

\* x => y => [x, [y]]
P_arrows ==
    [ name |-> "arrows", exists |-> TRUE, strict |-> TRUE, loose |-> TRUE, tree |->
        Node(LongLine, "Program", 0, 18, "none", 0, {}, <<
          Node(LongLine, "ExpressionStatement", 0, 18, "none", 0, {}, <<
            Node(LongLine, "ArrowFunctionExpression", 0, 18, "none", 0, {}, <<
              Node(LongLine, "Identifier", 0, 1, "none", 0, {}, <<>>),
              Node(LongLine, "ArrowFunctionExpression", 5, 18, "none", 0, {}, <<
                Node(LongLine, "Identifier", 5, 6, "none", 0, {}, <<>>),
                Node(LongLine, "ArrayExpression", 10, 18, "none", 0, {}, <<
                  Node(LongLine, "Identifier", 11, 12, "none", 0, {}, <<>>),
                  Node(LongLine, "ArrayExpression", 14, 17, "none", 0, {}, <<
                    Node(LongLine, "Identifier", 15, 16, "none", 0, {}, <<>>) >>) >>) >>) >>) >>) >>) ]

\* if (a) [b]; else if (c) x++; else [d]
P_elseIf ==
    [ name |-> "elseIf", exists |-> TRUE, strict |-> TRUE, loose |-> TRUE, tree |->
        Node(LongLine, "Program", 0, 37, "none", 0, {}, <<
          Node(LongLine, "IfStatement", 0, 37, "none", 0, {}, <<
            Node(LongLine, "Identifier", 4, 5, "none", 0, {}, <<>>),
            Node(LongLine, "ExpressionStatement", 7, 11, "none", 0, {}, <<
              Node(LongLine, "ArrayExpression", 7, 10, "none", 0, {}, <<
                Node(LongLine, "Identifier", 8, 9, "none", 0, {}, <<>>) >>) >>),
            Node(LongLine, "IfStatement", 17, 37, "none", 0, {}, <<
              Node(LongLine, "Identifier", 21, 22, "none", 0, {}, <<>>),
              Node(LongLine, "ExpressionStatement", 24, 28, "none", 0, {}, <<
                Node(LongLine, "UpdateExpression", 24, 27, "none", 2, {}, <<
                  Node(LongLine, "Identifier", 24, 25, "none", 0, {}, <<>>) >>) >>),
              Node(LongLine, "ExpressionStatement", 34, 37, "none", 0, {}, <<
                Node(LongLine, "ArrayExpression", 34, 37, "none", 0, {}, <<
                  Node(LongLine, "Identifier", 35, 36, "none", 0, {}, <<>>) >>) >>) >>) >>) >>) ]

\* if (f()) while (g()) {}
P_ifOnly ==
    [ name |-> "ifOnly", exists |-> TRUE, strict |-> TRUE, loose |-> TRUE, tree |->
        Node(LongLine, "Program", 0, 23, "none", 0, {}, <<
          Node(LongLine, "IfStatement", 0, 23, "none", 0, {"alternate"}, <<
            Node(LongLine, "CallExpression", 4, 7, "none", 0, {}, <<
              Node(LongLine, "Identifier", 4, 5, "none", 0, {}, <<>>) >>),
            Node(LongLine, "WhileStatement", 9, 23, "none", 0, {}, <<
              Node(LongLine, "CallExpression", 16, 19, "none", 0, {}, <<
                Node(LongLine, "Identifier", 16, 17, "none", 0, {}, <<>>) >>),
              Node(LongLine, "BlockStatement", 21, 23, "none", 0, {}, <<>>) >>) >>) >>) ]

\* for (let i = f(); ; ) for (var j = 0, k; ; j--) {}
P_nestedFor ==
    [ name |-> "nestedFor", exists |-> TRUE, strict |-> TRUE, loose |-> TRUE, tree |->
        Node(LongLine, "Program", 0, 50, "none", 0, {}, <<
          Node(LongLine, "ForStatement", 0, 50, "none", 0, {"test", "update"}, <<
            Node(LongLine, "VariableDeclaration", 5, 16, "none", 0, {}, <<
              Node(LongLine, "VariableDeclarator", 9, 16, "none", 0, {}, <<
                Node(LongLine, "Identifier", 9, 10, "none", 0, {}, <<>>),
                Node(LongLine, "CallExpression", 13, 16, "none", 0, {}, <<
                  Node(LongLine, "Identifier", 13, 14, "none", 0, {}, <<>>) >>) >>) >>),
            Node(LongLine, "ForStatement", 22, 50, "none", 0, {"test"}, <<
              Node(LongLine, "VariableDeclaration", 27, 39, "none", 0, {}, <<
                Node(LongLine, "VariableDeclarator", 31, 36, "none", 0, {}, <<
                  Node(LongLine, "Identifier", 31, 32, "none", 0, {}, <<>>),
                  Node(LongLine, "Literal", 35, 36, "falsy", 0, {}, <<>>) >>),
                Node(LongLine, "VariableDeclarator", 38, 39, "none", 0, {"init"}, <<
                  Node(LongLine, "Identifier", 38, 39, "none", 0, {}, <<>>) >>) >>),
              Node(LongLine, "UpdateExpression", 43, 46, "none", 2, {}, <<
                Node(LongLine, "Identifier", 43, 44, "none", 0, {}, <<>>) >>),
              Node(LongLine, "BlockStatement", 48, 50, "none", 0, {}, <<>>) >>) >>) >>) ]

\* with (o) { f() }
P_withStatement ==
    [ name |-> "withStatement", exists |-> TRUE, strict |-> FALSE, loose |-> TRUE, tree |->
        Node(LongLine, "Program", 0, 16, "none", 0, {}, <<
          Node(LongLine, "WithStatement", 0, 16, "none", 0, {}, <<
            Node(LongLine, "Identifier", 6, 7, "none", 0, {}, <<>>),
            Node(LongLine, "BlockStatement", 9, 16, "none", 0, {}, <<
              Node(LongLine, "ExpressionStatement", 11, 14, "none", 0, {}, <<
                Node(LongLine, "CallExpression", 11, 14, "none", 0, {}, <<
                  Node(LongLine, "Identifier", 11, 12, "none", 0, {}, <<>>) >>) >>) >>) >>) >>) ]

\* a.()
P_dummyProperty ==
    [ name |-> "dummyProperty", exists |-> TRUE, strict |-> FALSE, loose |-> TRUE, tree |->
        Node(LongLine, "Program", 0, 4, "none", 0, {}, <<
          Node(LongLine, "ExpressionStatement", 0, 4, "none", 0, {}, <<
            Node(LongLine, "CallExpression", 0, 4, "none", 0, {}, <<
              Node(LongLine, "MemberExpression", 0, 2, "none", 0, {}, <<
                Node(LongLine, "Identifier", 0, 1, "none", 0, {}, <<>>),
                Node(LongLine, "Identifier", 2, 2, "none", 0, {}, <<>>) >>) >>) >>) >>) ]

\* let = 1
P_dummyName ==
    [ name |-> "dummyName", exists |-> TRUE, strict |-> FALSE, loose |-> TRUE, tree |->
        Node(LongLine, "Program", 0, 7, "none", 0, {}, <<
          Node(LongLine, "VariableDeclaration", 0, 7, "none", 0, {}, <<
            Node(LongLine, "VariableDeclarator", 4, 7, "none", 0, {}, <<
              Node(LongLine, "Identifier", 4, 4, "none", 0, {}, <<>>),
              Node(LongLine, "Literal", 6, 7, "truthy", 0, {}, <<>>) >>) >>) >>) ]

\* let x =
P_dummyInit ==
    [ name |-> "dummyInit", exists |-> TRUE, strict |-> FALSE, loose |-> TRUE, tree |->
        Node(LongLine, "Program", 0, 7, "none", 0, {}, <<
          Node(LongLine, "VariableDeclaration", 0, 7, "none", 0, {}, <<
            Node(LongLine, "VariableDeclarator", 4, 7, "none", 0, {}, <<
              Node(LongLine, "Identifier", 4, 5, "none", 0, {}, <<>>),
              Node(LongLine, "Identifier", 7, 7, "none", 0, {}, <<>>) >>) >>) >>) ]

\* (a text both parsers reject)
P_unparsable ==
    [ name |-> "unparsable", exists |-> TRUE, strict |-> FALSE, loose |-> FALSE, tree |->
        Node(LongLine, "Program", 0, 2, "none", 0, {}, <<>>) ]

Corpus ==
    { P_scenarioA,
      P_scenarioB,
      P_scenarioC,
      P_scenarioD,
      P_scenarioE,
      P_parenCallee,
      P_parenIdent,
      P_plainCall,
      P_forIn,
      P_forInVar,
      P_forOf,
      P_forEmpty,
      P_forAssign,
      P_tryCatch,
      P_bareReturn,
      P_tryFinally,
      P_labelBreak,
      P_doContinue,
      P_labelContinue,
      P_switchCase,
      P_literalProperty,
      P_zeroProperty,
      P_classes,
      P_ternary,
      P_parenTest,
      P_modules,
      P_asyncGen,
      P_arrows,
      P_elseIf,
      P_ifOnly,
      P_nestedFor,
      P_withStatement,
      P_dummyProperty,
      P_dummyName,
      P_dummyInit,
      P_unparsable }

EmptyProgram == Node(LongLine, "Program", 0, 0, "none", 0, {}, <<>>)

\* A path that fs.readFileSync cannot read.
Unreadable ==
    [ name |-> "unreadable", exists |-> FALSE, strict |-> FALSE, loose |-> FALSE,
      tree |-> EmptyProgram ]

\* process.argv[2] when process.argv[3] selects another mode.
NoFile ==
    [ name |-> "none", exists |-> FALSE, strict |-> FALSE, loose |-> FALSE,
      tree |-> EmptyProgram ]

(***************************************************************************)
(* Generated files.  Besides the programs above, the file may hold any     *)
(* text of two lines of LineWidth characters whose tree has at most        *)
(* MaxNodes nodes below the Program.  The tree is composed node by node,   *)
(* in source order, before the run reads the file; its spans are nested as *)
(* the parsers nest them: a child lies within its parent, siblings follow  *)
(* one another without overlap, and every node spans at least one          *)
(* character, except the zero-width Identifier the lenient parser puts     *)
(* where a name is missing.                                                *)
(***************************************************************************)
MaxNodes == 2

LineWidth == 2

\* The offset behind the last character of the two-line text.
TextEnd == 2 * (LineWidth + 1) - 1

IsChar(off) == off >= 0 /\ off < TextEnd /\ off % (LineWidth + 1) < LineWidth

GenNode(type, s, e, kids) ==
    Node(LineWidth, type, s, e, "none",
         IF type = "UpdateExpression" THEN 2 ELSE 0, {}, kids)

\* The node types of the generated trees that have children, and the leaf.
InnerTypes ==
    { "ArrayExpression", "ObjectExpression", "CallExpression", "UpdateExpression" }

GenTypes == InnerTypes \cup { "Identifier" }

ArityOk(node) ==
    CASE node.type = "CallExpression" -> Len(node.kids) >= 1
      [] node.type = "UpdateExpression" -> Len(node.kids) = 1
      [] OTHER -> TRUE

RECURSIVE AllArityOk(_)
AllArityOk(node) ==
    ArityOk(node) /\ \A i \in 1..Len(node.kids) : AllArityOk(node.kids[i])

RECURSIVE Size(_)
Size(node) ==
    LET RECURSIVE sum(_)
        sum(i) == IF i = 0 THEN 0 ELSE Size(node.kids[i]) + sum(i - 1)
    IN 1 + sum(Len(node.kids))

RECURSIVE HasDummy(_)
HasDummy(node) ==
    \/ (node.type = "Identifier" /\ node.range[1] = node.range[2])
    \/ \E i \in 1..Len(node.kids) : HasDummy(node.kids[i])

\* The nodes on the tree's rightmost branch, the root first.
RECURSIVE Spine(_)
Spine(node) ==
    IF node.kids = <<>> THEN <<node>>
    ELSE <<node>> \o Spine(node.kids[Len(node.kids)])

\* The tree with `new` as the last child of the d-th node of its rightmost branch.
RECURSIVE AddAt(_, _, _)
AddAt(node, d, new) ==
    IF d = 1 THEN [ node EXCEPT !.kids = Append(@, new) ]
    ELSE [ node EXCEPT !.kids[Len(node.kids)] = AddAt(@, d - 1, new) ]

\* Whether `new` may become the next child of `parent`.
Fits(parent, new) ==
    /\ parent.type \in InnerTypes \cup { "Program" }
    /\ parent.range[1] <= new.range[1]
    /\ new.range[2] <= parent.range[2]
    /\ parent.kids # <<>> => parent.kids[Len(parent.kids)].range[2] <= new.range[1]
    /\ IF new.range[1] = new.range[2]
       THEN new.type = "Identifier" /\ (IsChar(new.range[1]) \/ new.range[1] = TextEnd)
       ELSE new.range[1] < new.range[2] /\ IsChar(new.range[1]) /\ IsChar(new.range[2] - 1)

\* The file whose tree is composed here, empty at first.
Generated ==
    [ name |-> "generated", exists |-> TRUE, strict |-> TRUE, loose |-> TRUE,
      tree |-> GenNode("Program", 0, TextEnd, <<>>) ]

(***************************************************************************)
(* The program run (index.js 346-388).                                     *)
(*   pc          where the run is: "start", "caught" (in parseToAst's      *)
(*               catch block), "parsed", "converted" (doParse returned),   *)
(*               "exit" (ran to its end) or "failed" (an exception left    *)
(*               the program)                                              *)
(*   argv        process.argv[3]: "AMOUNT", "MAPPING" or "undefined"       *)
(*   file        the file process.argv[2] names                            *)
(*   ast         parseToAst's result                                       *)
(*   emitted     what ASTToTokens pushed, in emission order                *)
(*   res         doParse's `res` after the sort                            *)
(*   visits      the nodes the walker dispatched on, in order              *)
(*   error       the exception that left the program, "none" if none       *)
(*   looseCalls  how often the lenient parser was run                      *)
(*   stderr      the number of lines console.error wrote                   *)
(*   stdout      what console.log wrote, in order                          *)
(***************************************************************************)
VARIABLES pc, argv, file, ast, emitted, res, visits, error, looseCalls, stderr, stdout

vars == <<pc, argv, file, ast, emitted, res, visits, error, looseCalls, stderr, stdout>>

Modes == { "AMOUNT", "MAPPING", "undefined" }

Line(kind, amount, mapping, tokens) ==
    [ kind |-> kind, amount |-> amount, mapping |-> mapping, tokens |-> tokens ]

Start(files) ==
    /\ pc = "start"
    /\ argv \in Modes
    /\ file \in (IF argv = "undefined" THEN files ELSE { NoFile })
    /\ ast = EmptyProgram
    /\ emitted = <<>>
    /\ res = <<>>
    /\ visits = <<>>
    /\ error = "none"
    /\ looseCalls = 0
    /\ stderr = 0
    /\ stdout = <<>>

Files == Corpus \cup { Unreadable, Generated }

Init == Start(Files)

\* Before the run: the generated file gets its next node.  A tree with a
\* zero-width Identifier is one the strict parser rejects.
Composes ==
    /\ pc = "start" /\ file.name = "generated"
    /\ Size(file.tree) <= MaxNodes
    /\ \E d \in 1..Len(Spine(file.tree)), t \in GenTypes,
          s \in 0..TextEnd, e \in 0..TextEnd :
          LET new == GenNode(t, s, e, <<>>)
          IN /\ Fits(Spine(file.tree)[d], new)
             /\ file' = [ file EXCEPT !.tree = AddAt(@, d, new),
                                      !.strict = @ /\ s # e ]
    /\ UNCHANGED <<pc, argv, ast, emitted, res, visits, error, looseCalls, stderr, stdout>>

\* console.log(Object.keys(TOKENS).length + 1)
Amount ==
    /\ pc = "start" /\ argv = "AMOUNT"
    /\ stdout' = Append(stdout, Line("number", Cardinality(DOMAIN TOKENS) + 1, {}, <<>>))
    /\ pc' = "exit"
    /\ UNCHANGED <<argv, file, ast, emitted, res, visits, error, looseCalls, stderr>>

\* console.log(JSON.stringify(TOKENS_REVERSE)): the object's key/value pairs
Mapping ==
    /\ pc = "start" /\ argv = "MAPPING"
    /\ stdout' = Append(stdout,
                   Line("object", 0,
                        { <<v, TOKENS_REVERSE[v]>> : v \in DOMAIN TOKENS_REVERSE }, <<>>))
    /\ pc' = "exit"
    /\ UNCHANGED <<argv, file, ast, emitted, res, visits, error, looseCalls, stderr>>

\* doParse: fs.readFileSync throws
ReadFails ==
    /\ pc = "start" /\ argv = "undefined" /\ ~file.exists
    /\ pc' = "failed"
    /\ error' = "ENOENT"
    /\ UNCHANGED <<argv, file, ast, emitted, res, visits, looseCalls, stderr, stdout>>

\* doParse reads the file; parseToAst's try block: the strict parser returns
StrictParses ==
    /\ pc = "start" /\ argv = "undefined" /\ file.exists /\ file.strict
    /\ AllArityOk(file.tree)
    /\ ast' = file.tree
    /\ pc' = "parsed"
    /\ UNCHANGED <<argv, file, emitted, res, visits, error, looseCalls, stderr, stdout>>

\* ... or throws: the catch block logs the error
StrictFails ==
    /\ pc = "start" /\ argv = "undefined" /\ file.exists /\ ~file.strict
    /\ AllArityOk(file.tree)
    /\ stderr' = stderr + 1
    /\ pc' = "caught"
    /\ UNCHANGED <<argv, file, ast, emitted, res, visits, error, looseCalls, stdout>>

\* the catch block returns the lenient parser's tree
LooseParses ==
    /\ pc = "caught" /\ file.loose
    /\ looseCalls' = looseCalls + 1
    /\ ast' = file.tree
    /\ pc' = "parsed"
    /\ UNCHANGED <<argv, file, emitted, res, visits, error, stderr, stdout>>

\* ... or the lenient parser throws too, out of parseToAst and doParse
LooseFails ==
    /\ pc = "caught" /\ ~file.loose
    /\ looseCalls' = looseCalls + 1
    /\ pc' = "failed"
    /\ error' = "SyntaxError"
    /\ UNCHANGED <<argv, file, ast, emitted, res, visits, stderr, stdout>>

\* doParse: res = ASTToTokens(ast); res.sort(...); return res
Converts ==
    /\ pc = "parsed"
    /\ LET r == ASTToTokens(ast)
       IN /\ emitted' = r.res
          /\ visits' = r.visits
          /\ IF r.error = "none"
             THEN /\ res' = sort(r.res)
                  /\ pc' = "converted"
                  /\ error' = error
             ELSE /\ res' = res
                  /\ pc' = "failed"
                  /\ error' = r.error
    /\ UNCHANGED <<argv, file, ast, looseCalls, stderr, stdout>>

\* console.log(JSON.stringify(doParse(process.argv[2])))
Prints ==
    /\ pc = "converted"
    /\ stdout' = Append(stdout, Line("array", 0, {}, res))
    /\ pc' = "exit"
    /\ UNCHANGED <<argv, file, ast, emitted, res, visits, error, looseCalls, stderr>>

Next ==
    \/ Composes
    \/ Amount
    \/ Mapping
    \/ ReadFails
    \/ StrictParses
    \/ StrictFails
    \/ LooseParses
    \/ LooseFails
    \/ Converts
    \/ Prints

Spec == Init /\ [][Next]_vars

(***************************************************************************)
(* Vocabulary of the properties below.                                     *)
(***************************************************************************)
\* The run converts a file and the conversion has returned.
Completed == argv = "undefined" /\ pc \in { "converted", "exit" }

RECURSIVE PathsFrom(_, _)
PathsFrom(node, at) ==
    { at } \cup UNION { PathsFrom(node.kids[i], Append(at, i)) : i \in 1..Len(node.kids) }

RECURSIVE NodeAt(_, _)
NodeAt(node, at) ==
    IF at = <<>> THEN node ELSE NodeAt(node.kids[Head(at)], Tail(at))

Paths(tree) == PathsFrom(tree, <<>>)

PathsOfType(tree, types) == { p \in Paths(tree) : NodeAt(tree, p).type \in types }

Count(seq, x) == Cardinality({ i \in DOMAIN seq : seq[i] = x })

CountKey(seq, key) == Cardinality({ i \in DOMAIN seq : seq[i].token.key = key })

Elems(seq) == { seq[i] : i \in DOMAIN seq }

\* The token of kind `key` at the start of `node`, of the given length.
AtStart(key, node, length) ==
    Token(TOKENS[key], node.loc.start.line, node.loc.start.column, length)

\* The token of kind `key` at the closing position of `node`.
AtClose(key, node) ==
    Token(TOKENS[key], node.loc.end.line,
          IF node.loc.end.column >= 1 THEN node.loc.end.column - 1 ELSE 0, 1)

Before(a, b) == a.line < b.line \/ (a.line = b.line /\ a.column <= b.column)

SamePlace(a, b) == a.line = b.line /\ a.column = b.column

\* The tokens of `seq` at one position, in their order in `seq`.
AtPlace(seq, t) == SelectSeq(seq, LAMBDA u : SamePlace(u, t))

(***************************************************************************)
(* C1                                                                      *)
(***************************************************************************)
\* C1: the token sequence doParse returns is non-decreasing in (line, column),
\* and it holds exactly the tokens ASTToTokens emitted, those at one position
\* in the order in which they were emitted.
C1_SortedStable ==
    Completed =>
      /\ \A i \in 1..(Len(res) - 1) : Before(res[i], res[i + 1])
      /\ Len(res) = Len(emitted)
      /\ \A t \in Elems(emitted) \cup Elems(res) : AtPlace(res, t) = AtPlace(emitted, t)

\* A conversion whose sort moved a token, with tokens on both lines and two
\* tokens at one position.
C1_Witness ==
    /\ Completed
    /\ res # emitted
    /\ \E i \in 1..(Len(res) - 1) : SamePlace(res[i], res[i + 1])
    /\ \E i, j \in DOMAIN res : res[i].line # res[j].line

(***************************************************************************)
(* C2                                                                      *)
(***************************************************************************)
\* The length a rule computes from node spans or operators is positive at
\* every node of the tree.
LengthOk(node) ==
    CASE node.type = "CallExpression" ->
           IF Field(node, "callee").type = "MemberExpression"
           THEN getLength(Field(Field(node, "callee"), "property")) >= 1
           ELSE getLength(Field(node, "callee")) >= 1
      [] node.type \in { "BreakStatement", "ContinueStatement" } -> getLength(node) >= 1
      [] node.type = "VariableDeclarator" ->
           isNull(node, "init") \/ getLength(Field(node, "id")) >= 1
      [] node.type \in { "AssignmentExpression", "UpdateExpression" } -> node.operator >= 1
      [] node.type = "ConditionalExpression" -> getLength(Field(node, "test")) + 2 >= 1
      [] OTHER -> TRUE

AllLengthsOk(tree) == \A p \in Paths(tree) : LengthOk(NodeAt(tree, p))

AllTokens ==
    Elems(emitted) \cup Elems(res) \cup
    UNION { Elems(stdout[i].tokens) : i \in DOMAIN stdout }

\* C2: every token pushed, returned or printed has length >= 1, an END token
\* has length 1, and a conversion completes only if no rule computed a
\* length below 1 (such a length aborts it).
C2_LengthPositive ==
    /\ \A t \in AllTokens :
         t.length >= 1 /\ (endsWithEND(t.token.key) => t.length = 1)
    /\ Completed => AllLengthsOk(ast)

\* A conversion aborted by the length assertion, on a zero-width name.
C2_Witness ==
    /\ pc = "failed" /\ error = "AssertionError"
    /\ ~AllLengthsOk(ast)
    /\ stdout = <<>>

(***************************************************************************)
(* C3                                                                      *)
(***************************************************************************)
BeginOf(endKey) ==
    CASE endKey = "FOR_END" -> "FOR_BEGIN"
      [] endKey = "FUNCTION_END" -> "FUNCTION_BEGIN"
      [] endKey = "IF_END" -> "IF_BEGIN"
      [] endKey = "CLASS_END" -> "CLASS_BEGIN"
      [] endKey = "IN_CLASS_END" -> "IN_CLASS_BEGIN"
      [] endKey = "WITH_END" -> "WITH_BEGIN"
      [] endKey = "SWITCH_END" -> "SWITCH_BEGIN"
      [] endKey = "CATCH_END" -> "CATCH_BEGIN"
      [] endKey = "WHILE_END" -> "WHILE_BEGIN"
      [] endKey = "DO_WHILE_END" -> "DO_WHILE_BEGIN"
      [] endKey = "ARRAY_END" -> "ARRAY_BEGIN"
      [] endKey = "OBJECT_END" -> "OBJECT_BEGIN"
      [] endKey = "GEN_EXPR_END" -> "GEN_EXPR_BEGIN"
      [] endKey = "ARRAY_COMP_END" -> "ARRAY_COMP_BEGIN"

EndKeys == { k \in DOMAIN TOKENS : endsWithEND(k) }

BeginKeys == { BeginOf(k) : k \in EndKeys }

\* Reading seq from position i with the unclosed BEGIN keys in `open`
\* (innermost last): every END closes the innermost BEGIN, of its own pair,
\* and nothing is left open.
RECURSIVE Nested(_, _, _)
Nested(seq, i, open) ==
    IF i > Len(seq) THEN open = <<>>
    ELSE LET k == seq[i].token.key
         IN IF k \in BeginKeys THEN Nested(seq, i + 1, Append(open, k))
            ELSE IF k \in EndKeys
                 THEN /\ open # <<>>
                      /\ open[Len(open)] = BeginOf(k)
                      /\ Nested(seq, i + 1, SubSeq(open, 1, Len(open) - 1))
                 ELSE Nested(seq, i + 1, open)

\* C3: in the sorted output of a completed conversion the BEGIN and END tokens
\* are well nested: every END closes the most recently opened unclosed BEGIN,
\* which is of its pair, and no BEGIN stays open.
C3_WellNested == Completed => Nested(res, 1, <<>>)

\* A completed conversion of nested constructs of two kinds that share their
\* start position and their closing position.
C3_Witness ==
    /\ Completed
    /\ \E i \in 1..(Len(res) - 1) :
         /\ SamePlace(res[i], res[i + 1])
         /\ res[i].token.key \in BeginKeys /\ res[i + 1].token.key \in BeginKeys
         /\ res[i].token.key # res[i + 1].token.key
    /\ \E i \in 1..(Len(res) - 1) :
         /\ SamePlace(res[i], res[i + 1])
         /\ res[i].token.key \in EndKeys /\ res[i + 1].token.key \in EndKeys
         /\ res[i].token.key # res[i + 1].token.key

(***************************************************************************)
(* What the tree calls for, read off the tree alone.                       *)
(***************************************************************************)
BlockTypes ==
    FunctionTypes \cup
    { "ForStatement", "ClassDeclaration", "ClassExpression", "WithStatement",
      "SwitchStatement", "CatchClause", "WhileStatement", "DoWhileStatement",
      "ArrayExpression", "ObjectExpression", "GeneratorExpression",
      "ComprehensionExpression" }

SingleTypes ==
    { "BreakStatement", "ContinueStatement", "CallExpression", "SwitchCase",
      "ReturnStatement", "ThrowStatement", "TryStatement", "AssignmentExpression",
      "UpdateExpression", "ConditionalExpression", "YieldExpression",
      "ImportDeclaration", "ImportExpression", "AwaitExpression", "Decorator",
      "ExportNamedDeclaration", "ExportDefaultDeclaration", "ExportAllDeclaration" }

\* The number of tokens the node itself stands for.
OwnTokens(node) ==
    CASE node.type \in BlockTypes -> 2
      [] node.type \in SingleTypes -> 1
      [] node.type = "IfStatement" -> IF isNull(node, "alternate") THEN 2 ELSE 3
      [] node.type \in { "ForOfStatement", "ForInStatement" } -> 3
      [] node.type = "VariableDeclarator" -> IF isNull(node, "init") THEN 0 ELSE 1
      [] OTHER -> 0

RECURSIVE TreeTokens(_)
TreeTokens(node) ==
    LET RECURSIVE sum(_)
        sum(i) == IF i = 0 THEN 0 ELSE TreeTokens(node.kids[i]) + sum(i - 1)
    IN OwnTokens(node) + sum(Len(node.kids))

IsPrefix(p, q) == Len(p) <= Len(q) /\ SubSeq(q, 1, Len(p)) = p

StrictlyBefore(a, b) == a.line < b.line \/ (a.line = b.line /\ a.column < b.column)

\* The indices of the tokens of `seq` placed from `from` on and before `to`.
Between(seq, from, to) ==
    { i \in DOMAIN seq : Before(from, seq[i]) /\ StrictlyBefore(seq[i], to) }

(***************************************************************************)
(* C4                                                                      *)
(***************************************************************************)
\* The paths of the nodes in the header of the for statement at path f.
HeaderPaths(tree, f) ==
    { q \in Paths(tree) :
        /\ IsPrefix(f, q) /\ Len(q) > Len(f)
        /\ q[Len(f) + 1] # KidIndex(NodeAt(tree, f), "body") }

EmitsAssign(node) ==
    \/ node.type \in { "AssignmentExpression", "UpdateExpression",
                       "ForOfStatement", "ForInStatement" }
    \/ (node.type = "VariableDeclarator" /\ ~isNull(node, "init"))

AssignOf(node) ==
    CASE node.type = "VariableDeclarator" ->
           AtStart("ASSIGN", node, getLength(Field(node, "id")))
      [] node.type \in { "ForOfStatement", "ForInStatement" } ->
           AtStart("ASSIGN", Field(node, "left"), 1)
      [] OTHER -> AtStart("ASSIGN", node, node.operator)

\* The ASSIGN tokens of `seq` placed in the header of the for statement `node`.
HeaderAssigns(seq, node) ==
    { i \in Between(seq, node.loc.start, Field(node, "body").loc.start) :
        seq[i].token.key = "ASSIGN" }

ForEnds(seq, node) ==
    /\ AtStart("FOR_BEGIN", node, 3) \in Elems(seq)
    /\ AtClose("FOR_END", node) \in Elems(seq)

\* C4 as stated: a C-style for statement yields FOR_BEGIN (length 3) at its
\* start and FOR_END (length 1) at its closing position, and no ASSIGN token
\* for anything in its header.
C4_Stated ==
    Completed =>
      \A f \in PathsOfType(ast, { "ForStatement" }) :
        /\ ForEnds(res, NodeAt(ast, f))
        /\ HeaderAssigns(res, NodeAt(ast, f)) = {}

\* C4 as amended: a C-style for statement yields FOR_BEGIN (length 3) at its
\* start and FOR_END (length 1) at its closing position; its header is walked
\* like any other code, so each declarator with an initializer, assignment
\* and update expression in it yields its ASSIGN token, and the header holds
\* no other ASSIGN token.
C4_HeaderAssigns ==
    Completed =>
      \A f \in PathsOfType(ast, { "ForStatement" }) :
        LET node == NodeAt(ast, f)
            emitters == { q \in HeaderPaths(ast, f) : EmitsAssign(NodeAt(ast, q)) }
        IN /\ ForEnds(res, node)
           /\ \A q \in emitters : AssignOf(NodeAt(ast, q)) \in Elems(res)
           /\ Cardinality(HeaderAssigns(res, node)) = Cardinality(emitters)

\* `for (let i = 0; i < 3; i++) {}` printed with the ASSIGN tokens of `i = 0`
\* and `i++`.
C4_Witness ==
    /\ pc = "exit" /\ file.name = "scenarioA"
    /\ CountKey(stdout[1].tokens, "ASSIGN") = 2
    /\ CountKey(stdout[1].tokens, "FOR_BEGIN") = 1

(***************************************************************************)
(* C5                                                                      *)
(***************************************************************************)
ApplyOf(node) ==
    LET callee == Field(node, "callee")
    IN IF callee.type = "MemberExpression"
       THEN AtStart("APPLY", Field(callee, "property"),
                    getLength(Field(callee, "property")))
       ELSE AtStart("APPLY", callee, getLength(callee))

\* C5: every call expression yields exactly one APPLY token: at the accessed
\* property, with its length, when the callee is a member access; at the
\* callee's own start, with the callee's length, otherwise.
C5_ApplyAtCallee ==
    Completed =>
      /\ CountKey(res, "APPLY") = Cardinality(PathsOfType(ast, { "CallExpression" }))
      /\ \A c \in PathsOfType(ast, { "CallExpression" }) :
           ApplyOf(NodeAt(ast, c)) \in Elems(res)

(***************************************************************************)
(* C6                                                                      *)
(***************************************************************************)
KeywordTypes ==
    { "BreakStatement", "ContinueStatement", "ReturnStatement", "ThrowStatement",
      "TryStatement" }

KeyOf(type) ==
    CASE type = "BreakStatement" -> "BREAK"
      [] type = "ContinueStatement" -> "CONTINUE"
      [] type = "ReturnStatement" -> "RETURN"
      [] type = "ThrowStatement" -> "THROW"
      [] type = "TryStatement" -> "TRY"

\* The character count of the statement's keyword.
KeywordLength(type) ==
    CASE type = "BreakStatement" -> 5
      [] type = "ContinueStatement" -> 8
      [] type = "ReturnStatement" -> 6
      [] type = "ThrowStatement" -> 5
      [] type = "TryStatement" -> 3

OnePerStatement(seq, tree) ==
    \A t \in KeywordTypes :
      CountKey(seq, KeyOf(t)) = Cardinality(PathsOfType(tree, { t }))

\* C6 as stated: each break, continue, return, throw and try statement yields
\* exactly one token, at its start, whose length is its keyword's character
\* count whatever the statement spans.
C6_Stated ==
    Completed =>
      /\ OnePerStatement(res, ast)
      /\ \A p \in PathsOfType(ast, KeywordTypes) :
           LET node == NodeAt(ast, p)
           IN AtStart(KeyOf(node.type), node, KeywordLength(node.type)) \in Elems(res)

\* C6 as amended: each of these statements yields exactly one token at its
\* start; for return, throw and try its length is the keyword's character
\* count, for break and continue it is the length of the whole statement
\* (label and semicolon included).
C6_Lengths ==
    Completed =>
      /\ OnePerStatement(res, ast)
      /\ \A p \in PathsOfType(ast, KeywordTypes) :
           LET node == NodeAt(ast, p)
               length == IF node.type \in { "BreakStatement", "ContinueStatement" }
                         THEN getLength(node)
                         ELSE KeywordLength(node.type)
           IN AtStart(KeyOf(node.type), node, length) \in Elems(res)

\* `x: while (1) break x;` printed: its BREAK token has the length of `break x;`.
C6_Witness ==
    /\ pc = "exit" /\ file.name = "labelBreak"
    /\ \E i \in DOMAIN stdout[1].tokens :
         stdout[1].tokens[i].token.key = "BREAK" /\ stdout[1].tokens[i].length = 8

(***************************************************************************)
(* C7                                                                      *)
(***************************************************************************)
TokensOf(node) == Elems(ASTToTokens(node).res)

Indices(seq, tokens) == { i \in DOMAIN seq : seq[i] \in tokens }

\* In seq, the ELSE token `else` comes behind the tokens of the test and the
\* consequent of `node` and ahead of the tokens of its alternate.
ElseInOrder(seq, node, else) ==
    \A j \in Indices(seq, { else }) :
      /\ \A i \in Indices(seq, TokensOf(Field(node, "test")) \cup
                               TokensOf(Field(node, "consequent"))) : i < j
      /\ \A i \in Indices(seq, TokensOf(Field(node, "alternate"))) : j < i

IfEnds(seq, node) ==
    /\ AtStart("IF_BEGIN", node, 2) \in Elems(seq)
    /\ AtClose("IF_END", node) \in Elems(seq)

WithElse(tree) ==
    { p \in PathsOfType(tree, { "IfStatement" }) : ~isNull(NodeAt(tree, p), "alternate") }

\* C7 as stated: an if statement with an alternate yields IF_BEGIN (length 2)
\* at `if`, IF_END (length 1) at its closing position and an ELSE token of
\* length 1 at the `else` keyword, which stands behind the consequent and
\* ahead of the alternate; ELSE is ordered behind the tokens of the test and
\* consequent and ahead of those of the alternate; without an alternate there
\* is no ELSE token.
C7_Stated ==
    Completed =>
      /\ CountKey(res, "ELSE") = Cardinality(WithElse(ast))
      /\ \A p \in WithElse(ast) :
           LET node == NodeAt(ast, p)
           IN /\ IfEnds(res, node)
              /\ \E i \in DOMAIN res :
                   /\ res[i].token.key = "ELSE" /\ res[i].length = 1
                   /\ Before(Field(node, "consequent").loc.end, res[i])
                   /\ StrictlyBefore(res[i], Field(node, "alternate").loc.start)
                   /\ ElseInOrder(res, node, res[i])

\* C7 as amended: the same, with the ELSE token at the start of the alternate
\* (behind the `else` keyword), not at the keyword.
C7_ElseAtAlternate ==
    Completed =>
      /\ CountKey(res, "ELSE") = Cardinality(WithElse(ast))
      /\ \A p \in WithElse(ast) :
           LET node == NodeAt(ast, p)
               else == AtStart("ELSE", Field(node, "alternate"), 1)
           IN /\ IfEnds(res, node)
              /\ else \in Elems(res)
              /\ ElseInOrder(res, node, else)

\* `if (x) {} else {}` printed: ELSE at column 15, where the alternate starts.
C7_Witness ==
    /\ pc = "exit" /\ file.name = "scenarioC"
    /\ \E i \in DOMAIN stdout[1].tokens :
         /\ stdout[1].tokens[i].token.key = "ELSE"
         /\ stdout[1].tokens[i].column = 15
         /\ stdout[1].tokens[i].length = 1

(***************************************************************************)
(* C8                                                                      *)
(***************************************************************************)
\* C8: in file mode the lenient parser runs at most once and only after the
\* strict one failed; a run that ends normally has printed exactly one line,
\* the complete sorted token array; a run that has not ended normally has
\* printed nothing; and a run fails only because the file cannot be read,
\* the lenient parser failed too, or an emission rule's assertion failed:
\* whenever a parse succeeds and no assertion fails, the array is printed.
C8_AllOrNothing ==
    argv = "undefined" =>
      /\ looseCalls <= 1
      /\ looseCalls = 1 => (~file.strict /\ stderr = 1)
      /\ pc # "exit" => stdout = <<>>
      /\ pc = "exit" =>
           /\ error = "none"
           /\ file.strict \/ (file.loose /\ looseCalls = 1)
           /\ Len(stdout) = 1
           /\ stdout[1].kind = "array"
           /\ Len(stdout[1].tokens) = TreeTokens(ast)
           /\ \A i \in 1..(Len(stdout[1].tokens) - 1) :
                Before(stdout[1].tokens[i], stdout[1].tokens[i + 1])
      /\ pc = "failed" =>
           \/ error = "ENOENT" /\ ~file.exists
           \/ error = "SyntaxError" /\ ~file.strict /\ ~file.loose /\ looseCalls = 1
           \/ error = "AssertionError" /\ ~AllLengthsOk(ast)

(***************************************************************************)
(* C9                                                                      *)
(***************************************************************************)
Ids == { TOKENS[k] : k \in DOMAIN TOKENS }

\* C9: when AMOUNT is printed, the kind ids are the consecutive integers from
\* 1, the two tables are inverse to each other, the printed value is the
\* number of keys of the MAPPING output plus 1, and every id is smaller than
\* the printed value.
C9_Vocabulary ==
    (pc = "exit" /\ argv = "AMOUNT") =>
      /\ Ids = 1..Cardinality(DOMAIN TOKENS)
      /\ \A k \in DOMAIN TOKENS : TOKENS_REVERSE[TOKENS[k]] = k
      /\ \A v \in DOMAIN TOKENS_REVERSE : TOKENS[TOKENS_REVERSE[v]] = v
      /\ stdout[1].amount = Cardinality(DOMAIN TOKENS_REVERSE) + 1
      /\ \A v \in Ids : v < stdout[1].amount

(***************************************************************************)
(* C10                                                                     *)
(***************************************************************************)
\* C10: in a completed conversion the walker has dispatched on every node of
\* the tree exactly once, every node has yielded its tokens exactly once, and
\* a for-in statement has yielded FOR_BEGIN, ASSIGN and FOR_END once each.
C10_VisitedOnce ==
    Completed =>
      /\ \A p \in Paths(ast) : Count(visits, p) = 1
      /\ Len(visits) = Cardinality(Paths(ast))
      /\ Len(res) = TreeTokens(ast)
      /\ \A p \in PathsOfType(ast, { "ForInStatement" }) :
           LET node == NodeAt(ast, p)
           IN /\ Count(res, AtStart("FOR_BEGIN", node, 3)) = 1
              /\ Count(res, AtStart("ASSIGN", Field(node, "left"), 1)) = 1
              /\ Count(res, AtClose("FOR_END", node)) = 1

\* `for (var k in [o]) f(k)` converted: the for-in rule delegated, and rules
\* with and without their own recursion ran below it.
C10_Witness ==
    /\ Completed /\ file.name = "forInVar"
    /\ Len(visits) = Cardinality(Paths(ast))
    /\ CountKey(res, "FOR_BEGIN") = 1 /\ CountKey(res, "APPLY") = 1

====
